---- MODULE Spec2Model ----
(***************************************************************************)
(* Model of video/out/opengl/hwdec_drmprime_wayland.c: the drmprime ->     *)
(* Wayland linux-dmabuf overlay driver (init, overlay_frame, uninit and    *)
(* the registry / buffer-params / buffer-release callbacks).               *)
(*                                                                         *)
(* Pointers are modelled as naturals: 0 is NULL, a positive number is the  *)
(* identity of the object (its index in the sequence that records every    *)
(* object of that kind ever created).  Negative numbers stand for values   *)
(* that are not valid pointers (uninitialised memory, garbage).            *)
(***************************************************************************)
EXTENDS Integers, Sequences, FiniteSets, TLC

\* ------------------------------------------------------------------ bounds
MaxInits    == 1      \* calls of init
MaxUninits  == 2      \* calls of uninit by the host
MaxParams   == 2      \* buffer-params objects created by overlay_frame
MaxAdvertised == 3    \* registry events of one advertisement sequence

\* --------------------------------------------------------- program constants
AV_DRM_MAX_PLANES == 4

\* ------------------------------------------------------------ pointer values
NullPtr    == 0
UninitPtr  == 0 - 2   \* content of malloc'ed memory that was never written
GarbagePtr == 0 - 1   \* a non-NULL value read from uninitialised memory

\* ------------------------------------------------------------------- inputs
\* Interfaces the server may advertise on the registry.
Interfaces == {"wl_subcompositor", "zwp_linux_dmabuf_v1", "wl_shm"}

\* The advertisement sequences of one discovery round-trip: every ordering of
\* every subset of Interfaces.
Advertisements ==
    {s \in UNION {[1..n -> Interfaces] : n \in 0..Cardinality(Interfaces)} :
        \A i, j \in DOMAIN s : i # j => s[i] # s[j]}

\* hw_image values handed to overlay_frame: 0 is NULL, 1..3 are images.
Images == 1..3

Plane(oi, off, pitch) == [object_index |-> oi, offset |-> off, pitch |-> pitch]

\* hw_image->planes[0] of each image: an AVDRMFrameDescriptor, or NULL.
\*  image 1: one layer; planes 0 and 2 valid, plane 1 has fd 0, plane 3 pitch 0
\*  image 2: two layers; layer 0 has two valid planes, layer 1 has one
\*  image 3: no descriptor (planes[0] == NULL)
Desc(img) ==
    CASE img = 1 ->
           [nb_layers |-> 1,
            objects   |-> <<[fd |-> 5], [fd |-> 0]>>,
            layers    |-> <<[format |-> "NV12",
                             planes |-> <<Plane(0, 0, 1920), Plane(1, 64, 960),
                                          Plane(0, 3072, 960), Plane(0, 128, 0)>>]>>]
      [] img = 2 ->
           [nb_layers |-> 2,
            objects   |-> <<[fd |-> 7], [fd |-> 0 - 1]>>,
            layers    |-> <<[format |-> "R8",
                             planes |-> <<Plane(0, 0, 1920), Plane(1, 0, 1920),
                                          Plane(0, 0, 0), Plane(0, 0, 0)>>],
                            [format |-> "GR88",
                             planes |-> <<Plane(0, 2048, 960), Plane(0, 0, 0),
                                          Plane(0, 0, 0), Plane(0, 0, 0)>>]>>]
      [] OTHER -> [nb_layers |-> 0, objects |-> <<>>, layers |-> <<>>]

HasDesc(img) == img \in {1, 2}

\* struct mp_rect values for src.
SrcRects == {[x0 |-> 16, y0 |-> 8, x1 |-> 1936, y1 |-> 1088]}

\* struct mp_rect values for dst.
DstRects == {[x0 |-> 0, y0 |-> 0, x1 |-> 1280, y1 |-> 720],
             [x0 |-> 100, y0 |-> 50, x1 |-> 740, y1 |-> 410]}

\* -------------------------------------------------------------------- state
VARIABLES
    p,            \* struct priv (zero-initialised by the host)
    pc,           \* "idle" | "overlay" (inside overlay_frame's layer loop) | "crashed"
    cur,          \* locals of the running overlay_frame call
    connected,    \* the display connection is alive
    events,       \* release events sent by the compositor, not yet dispatched
    surfaces,     \* wl_surface objects created: destroy requests, attached buffer
    subsurfaces,  \* wl_subsurface objects created: destroy requests
    params,       \* zwp_linux_buffer_params_v1 objects created
    frames,       \* struct dmabuf_frame allocations
    buffers,      \* wl_buffer objects created
    ub,           \* undefined operations performed so far
    hist          \* calls made and what the last call did

vars == <<p, pc, cur, connected, events, surfaces, subsurfaces,
          params, frames, buffers, ub, hist>>

\* The state as one value, so that a handler is an operator from state to state
\* and a handler that calls another one is their composition.
St == [p |-> p, pc |-> pc, cur |-> cur, connected |-> connected,
       events |-> events, surfaces |-> surfaces, subsurfaces |-> subsurfaces,
       params |-> params, frames |-> frames, buffers |-> buffers,
       ub |-> ub, hist |-> hist]

Becomes(S) ==
    /\ p' = S.p
    /\ pc' = S.pc
    /\ cur' = S.cur
    /\ connected' = S.connected
    /\ events' = S.events
    /\ surfaces' = S.surfaces
    /\ subsurfaces' = S.subsurfaces
    /\ params' = S.params
    /\ frames' = S.frames
    /\ buffers' = S.buffers
    /\ ub' = S.ub
    /\ hist' = S.hist

NoCall == [img |-> 0, src |-> [x0 |-> 0, y0 |-> 0, x1 |-> 0, y1 |-> 0], l |-> 0]

\* What is remembered of the last call of the host: which operation, its
\* return value (1: none yet), and
\*   for init: the branch taken, the surface and subsurface it created;
\*   for overlay_frame: the image, the buffer attached at entry, the outcome
\*   of each layer, the buffers it committed, its first params object;
\*   for uninit: whether the call before it was overlay_frame(NULL).
NoHistory == [op |-> "none", ret |-> 1, branch |-> "none",
              newSurface |-> 0, newSubsurface |-> 0,
              img |-> 0, before |-> 0, replies |-> <<>>, committed |-> <<>>,
              firstParams |-> 0, afterNull |-> FALSE]

Called(S, op) ==
    [S EXCEPT !.hist = [inits |-> @.inits, uninits |-> @.uninits,
                        ready |-> @.ready]
                       @@ [NoHistory EXCEPT
                             !.op = op,
                             !.afterNull = /\ op = "uninit"
                                           /\ S.hist.op = "overlay_frame"
                                           /\ S.hist.img = NullPtr]]

Init ==
    /\ p = [wayland_params |-> NullPtr, registry |-> NullPtr, dmabuf |-> NullPtr,
            subcompositor |-> NullPtr, video_surface |-> NullPtr,
            video_subsurface |-> NullPtr]
    /\ pc = "idle"
    /\ cur = NoCall
    /\ connected = TRUE
    /\ events = <<>>
    /\ surfaces = <<>>
    /\ subsurfaces = <<>>
    /\ params = <<>>
    /\ frames = <<>>
    /\ buffers = <<>>
    /\ ub = {}
    /\ hist = [inits |-> 0, uninits |-> 0, ready |-> FALSE] @@ NoHistory

\* An undefined operation: it is recorded, and the build either faults there
\* (fault = TRUE) or carries on.
Undefined(S, what, fault) ==
    [S EXCEPT !.ub = @ \cup {what},
              !.pc = IF fault THEN "crashed" ELSE @]

\* The rest of a handler runs only if the process has not faulted.
Alive(S) == S.pc # "crashed"

\* A read or write of the fields of frame record f, or free(f): undefined
\* once the record has been freed.
frame_access(S, f) ==
    IF S.frames[f].freed > 0
    THEN Undefined(S, "access to a freed frame record", FALSE)
    ELSE S

\* ------------------------------------------------------ release of a buffer
\* buffer_release that frees the frame record but leaves the wl_buffer alive.
buffer_release_keepsBuffer(S, data, buffer) ==
    IF data # NullPtr
    THEN [S EXCEPT !.frames[data].imageFreed = @ + 1,
                   !.frames[data].freed = @ + 1]
    ELSE S

\* buffer_release: the wl_buffer listener; data is the frame record given to
\* wl_buffer_add_listener.
buffer_release(S, data, buffer) ==
    IF data # NullPtr
    THEN [frame_access(S, data) EXCEPT
                   !.frames[data].imageFreed = @ + 1,
                   !.buffers[buffer].destroyed = @ + 1,
                   !.frames[data].freed = @ + 1]
    ELSE S

\* Delivery of one queued release event.  libwayland drops an event whose
\* proxy the client has already destroyed.
deliver(S, b) ==
    IF S.buffers[b].destroyed = 0
    THEN buffer_release([S EXCEPT !.buffers[b].released = TRUE],
                        S.buffers[b].data, b)
    ELSE S

RECURSIVE dispatch(_, _)
dispatch(S, q) ==
    IF q = <<>> THEN S ELSE dispatch(deliver(S, Head(q)), Tail(q))

\* wl_display_roundtrip on a valid display: every queued event is dispatched;
\* on a dead connection it returns at once and dispatches nothing.
wl_display_roundtrip(S) ==
    IF S.connected
    THEN [dispatch(S, S.events) EXCEPT !.events = <<>>]
    ELSE S

\* ------------------------------------------------------------------ uninit
wl_surface_destroy(S, s, fault) ==
    LET T == [S EXCEPT !.surfaces[s].destroyed = @ + 1]
    IN  IF S.surfaces[s].destroyed > 0
        THEN Undefined(T, "wl_surface_destroy on a destroyed surface", fault)
        ELSE T

wl_subsurface_destroy(S, s, fault) ==
    LET T == [S EXCEPT !.subsurfaces[s].destroyed = @ + 1]
    IN  IF S.subsurfaces[s].destroyed > 0
        THEN Undefined(T, "wl_subsurface_destroy on a destroyed subsurface", fault)
        ELSE T

uninit(S, fault) ==
    LET S1 == IF S.p.video_surface # NullPtr
              THEN wl_surface_destroy(S, S.p.video_surface, fault)
              ELSE S
        S2 == IF Alive(S1) /\ S1.p.video_subsurface # NullPtr
              THEN wl_subsurface_destroy(S1, S1.p.video_subsurface, fault)
              ELSE S1
    IN  IF ~Alive(S2) THEN S2
        ELSE IF S2.p.wayland_params = NullPtr
        THEN Undefined(S2, "wl_display_roundtrip through NULL wayland_params", fault)
        ELSE wl_display_roundtrip(S2)

\* -------------------------------------------------------------------- init
\* The name (id) under which the server's registry lists each global.
GlobalName(interface) ==
    CASE interface = "wl_subcompositor" -> 1
      [] interface = "zwp_linux_dmabuf_v1" -> 2
      [] OTHER -> 3

\* registry_handle_add whose local "found" starts at 0, so that the
\* post-increment in each test yields 0.
registry_handle_add_foundZero(pp, id, interface) ==
    LET found0 == 0
        hit1   == interface = "wl_subcompositor" /\ found0 # 0
        found1 == IF interface = "wl_subcompositor" THEN found0 + 1 ELSE found0
        p1     == IF hit1 THEN [pp EXCEPT !.subcompositor = id] ELSE pp
        hit2   == interface = "zwp_linux_dmabuf_v1" /\ found1 # 0
    IN  IF hit2 THEN [p1 EXCEPT !.dmabuf = id] ELSE p1

\* registry_handle_add for the global with name id.
registry_handle_add(pp, id, interface) ==
    LET found0 == 1
        hit1   == interface = "wl_subcompositor" /\ found0 # 0
        found1 == IF interface = "wl_subcompositor" THEN found0 + 1 ELSE found0
        p1     == IF hit1 THEN [pp EXCEPT !.subcompositor = id] ELSE pp
        hit2   == interface = "zwp_linux_dmabuf_v1" /\ found1 # 0
    IN  IF hit2 THEN [p1 EXCEPT !.dmabuf = id] ELSE p1

RECURSIVE registry_events(_, _, _)
registry_events(pp, adv, i) ==
    IF i > Len(adv) THEN pp
    ELSE registry_events(registry_handle_add(pp, GlobalName(adv[i]), adv[i]),
                         adv, i + 1)

\* The discovery round-trip of init: the globals are advertised to the new
\* registry and every queued event is dispatched.
discovery_roundtrip(S, adv) ==
    IF S.connected
    THEN wl_display_roundtrip([S EXCEPT !.p = registry_events(S.p, adv, 1)])
    ELSE S

\* init's "err:" label.
init_err(S, branch, fault) ==
    LET T == uninit(S, fault)
    IN  IF Alive(T)
        THEN [T EXCEPT !.hist.ret = 0 - 1, !.hist.branch = branch,
                       !.hist.ready = FALSE]
        ELSE [T EXCEPT !.hist.branch = branch, !.hist.ready = FALSE]

init(S, avail, adv, surfOK, subOK, fault) ==
    LET H  == [Called(S, "init") EXCEPT !.hist.inits = @ + 1]
        S0 == [H EXCEPT !.p.wayland_params = IF avail THEN 1 ELSE NullPtr]
        S1 == discovery_roundtrip([S0 EXCEPT !.p.registry = 1], adv)
        ns == Len(S1.surfaces) + 1
        S2 == IF surfOK
              THEN [S1 EXCEPT !.surfaces = Append(@, [destroyed |-> 0,
                                                      attached |-> NullPtr]),
                              !.p.video_surface = ns,
                              !.hist.newSurface = ns]
              ELSE [S1 EXCEPT !.p.video_surface = NullPtr]
        nss == Len(S2.subsurfaces) + 1
        S3 == IF subOK
              THEN [S2 EXCEPT !.subsurfaces = Append(@, [destroyed |-> 0]),
                              !.p.video_subsurface = nss,
                              !.hist.newSubsurface = nss]
              ELSE [S2 EXCEPT !.p.video_subsurface = NullPtr]
        \* wl_subcompositor_get_subsurface on a NULL subcompositor
        S3u == Undefined([S2 EXCEPT !.p.video_subsurface = NullPtr,
                                    !.hist.branch = "no_subcompositor"],
                         "wl_subcompositor_get_subsurface on NULL subcompositor",
                         fault)
    IN  IF S0.p.wayland_params = NullPtr THEN init_err(S0, "no_params", fault)
        ELSE IF S2.p.video_surface = NullPtr THEN init_err(S2, "no_surface", fault)
        ELSE IF S2.p.subcompositor = NullPtr
        THEN (IF Alive(S3u) THEN init_err(S3u, "no_subcompositor", fault)
              ELSE [S3u EXCEPT !.hist.ready = FALSE])
        ELSE IF S3.p.video_subsurface = NullPtr
        THEN init_err(S3, "no_subsurface", fault)
        ELSE [S3 EXCEPT !.hist.ret = 0, !.hist.branch = "ok",
                        !.hist.ready = TRUE]

\* ----------------------------------------------------------- overlay_frame
\* add_planes with the skip test weakened from "fd && pitch" to "fd || pitch".
RECURSIVE add_planes_eitherNonZero(_, _, _, _)
add_planes_eitherNonZero(desc, layer, plane, modifier) ==
    IF plane >= AV_DRM_MAX_PLANES THEN <<>>
    ELSE LET pl == layer.planes[plane + 1]
             fd == desc.objects[pl.object_index + 1].fd
         IN  (IF fd # 0 \/ pl.pitch # 0
              THEN <<[fd |-> fd, plane_idx |-> plane, offset |-> pl.offset,
                      pitch |-> pl.pitch,
                      modifier_hi |-> (modifier \div 65536) \div 65536,
                      modifier_lo |-> (modifier % 65536)
                                     + 65536 * ((modifier \div 65536) % 65536)]>>
              ELSE <<>>)
             \o add_planes_eitherNonZero(desc, layer, plane + 1, modifier)

\* The inner loop of overlay_frame over the planes of one layer: the
\* zwp_linux_buffer_params_v1_add requests it issues, in order.
RECURSIVE add_planes(_, _, _, _)
add_planes(desc, layer, plane, modifier) ==
    IF plane >= AV_DRM_MAX_PLANES THEN <<>>
    ELSE LET pl == layer.planes[plane + 1]
             fd == desc.objects[pl.object_index + 1].fd
         IN  (IF fd # 0 /\ pl.pitch # 0
              THEN <<[fd |-> fd, plane_idx |-> plane, offset |-> pl.offset,
                      pitch |-> pl.pitch,
                      modifier_hi |-> (modifier \div 65536) \div 65536,
                      modifier_lo |-> (modifier % 65536)
                                     + 65536 * ((modifier \div 65536) % 65536)]>>
              ELSE <<>>)
             \o add_planes(desc, layer, plane + 1, modifier)

\* param_create_succeeded that does not store the new buffer in the record.
param_create_succeeded_notStored(S, data, prm, new_buffer) ==
    [S EXCEPT !.buffers[new_buffer].data = data,
              !.params[prm].destroyed = @ + 1]

\* param_create_succeeded: the "created" event of a buffer-params object.
param_create_succeeded(S, data, prm, new_buffer) ==
    [frame_access(S, data) EXCEPT
              !.frames[data].buffer = new_buffer,
              !.buffers[new_buffer].data = data,
              !.params[prm].destroyed = @ + 1]

\* param_create_failed that also frees the frame record it was given.
param_create_failed_freesFrame(S, data, prm) ==
    [frame_access(S, data) EXCEPT
              !.frames[data].buffer = NullPtr,
              !.frames[data].freed = @ + 1,
              !.params[prm].destroyed = @ + 1]

\* param_create_failed: the "failed" event of a buffer-params object.
param_create_failed(S, data, prm) ==
    [frame_access(S, data) EXCEPT
              !.frames[data].buffer = NullPtr,
              !.params[prm].destroyed = @ + 1]

\* attach_commit that also destroys the buffer it supersedes.
attach_commit_destroysOld(S, buffer, fault) ==
    LET vs  == S.p.video_surface
        old == S.surfaces[vs].attached
        T   == [S EXCEPT !.surfaces[vs].attached = buffer,
                         !.hist.committed = Append(@, buffer)]
        U   == IF buffer > 0 THEN [T EXCEPT !.buffers[buffer].committed = TRUE]
               ELSE T
    IN  IF old > 0 /\ old # buffer
        THEN [U EXCEPT !.buffers[old].destroyed = @ + 1]
        ELSE U

\* wl_surface_attach + wl_surface_commit on the video surface.
attach_commit(S, buffer, fault) ==
    LET vs == S.p.video_surface
        T  == [S EXCEPT !.surfaces[vs].attached = buffer,
                        !.hist.committed = Append(@, buffer)]
        U  == IF buffer > 0 THEN [T EXCEPT !.buffers[buffer].committed = TRUE]
              ELSE T
    IN  IF buffer < 0
        THEN Undefined(U, "wl_surface_attach of an invalid buffer pointer", fault)
        ELSE U

\* mp_image_new_ref whose result is never stored in the frame record.
mp_image_new_ref_notKept(S, frame, hw_image) == S

\* frame->image = mp_image_new_ref(hw_image): the frame record holds its own
\* reference to the image.
mp_image_new_ref(S, frame, hw_image) ==
    [frame_access(S, frame) EXCEPT !.frames[frame].image = hw_image]

\* Return from overlay_frame.
overlay_return(S, ret) ==
    [S EXCEPT !.pc = "idle", !.cur = NoCall, !.hist.ret = ret]

\* The server's part of the round-trip of overlay_frame: queued events are
\* dispatched, then the reply to the create request of params object prm.
create_roundtrip(S, prm, reply) ==
    LET frame == S.params[prm].listener
        R  == wl_display_roundtrip(S)
        nb == Len(R.buffers) + 1
        B  == [R EXCEPT !.buffers = Append(@, [data |-> NullPtr, params |-> prm,
                                               committed |-> FALSE,
                                               releaseSent |-> FALSE,
                                               released |-> FALSE,
                                               destroyed |-> 0]),
                        !.params[prm].reply = "created"]
    IN  IF ~S.connected THEN S
        ELSE IF reply = "created"
        THEN param_create_succeeded(B, frame, prm, nb)
        ELSE param_create_failed([R EXCEPT !.params[prm].reply = "failed"],
                                 frame, prm)

\* overlay_frame whose NULL-image branch returns without detaching.
overlay_frame_keepsBuffer(S, hw_image, src, dst) ==
    LET vs == S.p.video_surface
        H  == [Called(S, "overlay_frame") EXCEPT
                        !.hist.img = hw_image,
                        !.hist.before = S.surfaces[vs].attached,
                        !.hist.firstParams = Len(S.params) + 1]
    IN  IF hw_image = NullPtr \/ ~HasDesc(hw_image)
           \/ Desc(hw_image).nb_layers = 0
        THEN overlay_return(H, 0)
        ELSE [H EXCEPT !.pc = "overlay",
                       !.cur = [img |-> hw_image, src |-> src, l |-> 0]]

\* overlay_frame that sizes its requests from dst instead of src.
overlay_frame_usesDst(S, hw_image, src, dst) ==
    LET vs == S.p.video_surface
        H  == [Called(S, "overlay_frame") EXCEPT
                        !.hist.img = hw_image,
                        !.hist.before = S.surfaces[vs].attached,
                        !.hist.firstParams = Len(S.params) + 1]
    IN  IF hw_image = NullPtr
        THEN overlay_return(attach_commit(H, NullPtr, FALSE), 0)
        ELSE IF ~HasDesc(hw_image) \/ Desc(hw_image).nb_layers = 0
        THEN overlay_return(H, 0)
        ELSE [H EXCEPT !.pc = "overlay",
                       !.cur = [img |-> hw_image, src |-> dst, l |-> 0]]

\* Entry of overlay_frame, up to the layer loop.  dst is not read.
overlay_frame(S, hw_image, src, dst) ==
    LET vs == S.p.video_surface
        H  == [Called(S, "overlay_frame") EXCEPT
                        !.hist.img = hw_image,
                        !.hist.before = S.surfaces[vs].attached,
                        !.hist.firstParams = Len(S.params) + 1]
    IN  IF hw_image = NullPtr
        THEN overlay_return(attach_commit(H, NullPtr, FALSE), 0)
        ELSE IF ~HasDesc(hw_image) \/ Desc(hw_image).nb_layers = 0
        THEN overlay_return(H, 0)
        ELSE [H EXCEPT !.pc = "overlay",
                       !.cur = [img |-> hw_image, src |-> src, l |-> 0]]

\* next_layer that leaves the loop after the first layer.
next_layer_returnsEarly(S, nb_layers) == overlay_return(S, 0)

\* The end of one loop iteration: l++, then the loop test l < nb_layers;
\* when it fails overlay_frame returns 0.
next_layer(S, nb_layers) ==
    IF S.cur.l + 1 < nb_layers
    THEN [S EXCEPT !.cur.l = @ + 1]
    ELSE overlay_return(S, 0)

\* One iteration of the layer loop of overlay_frame, for layer cur.l.
\*   mallocOK: malloc returns a frame record
\*   reply:    the server's reply to the create request
\*   junk:     an uninitialised frame->buffer reads as non-NULL
overlay_layer(S, mallocOK, reply, junk, fault) ==
    LET desc  == Desc(S.cur.img)
        layer == desc.layers[S.cur.l + 1]
        prm   == Len(S.params) + 1
        \* zwp_linux_dmabuf_v1_create_params and the plane loop
        S1 == [S EXCEPT !.params = Append(@,
                  [layer |-> S.cur.l, img |-> S.cur.img,
                   adds |-> add_planes(desc, layer, 0, 0),
                   listener |-> NullPtr, submitted |-> FALSE,
                   src |-> S.cur.src,
                   width |-> 0, height |-> 0, format |-> "", flags |-> 0,
                   reply |-> "none", destroyed |-> 0])]
        \* malloc failed: goto fail with frame == NULL
        Oom == overlay_return([S1 EXCEPT !.hist.replies = Append(@, "oom")], 0 - 1)
        frame == Len(S1.frames) + 1
        S2 == [S1 EXCEPT !.frames = Append(@, [buffer |-> UninitPtr,
                                               image |-> UninitPtr,
                                               params |-> prm,
                                               freed |-> 0, imageFreed |-> 0]),
                         !.params[prm].listener = frame,
                         !.params[prm].submitted = TRUE,
                         !.params[prm].width = S.cur.src.x1 - S.cur.src.x0,
                         !.params[prm].height = S.cur.src.y1 - S.cur.src.y0,
                         !.params[prm].format = layer.format,
                         !.params[prm].flags = 0]
        S3 == create_roundtrip(S2, prm, reply)
        S4 == frame_access([S3 EXCEPT !.hist.replies =
                                        Append(@, S3.params[prm].reply)],
                           frame)
        \* if (frame->buffer)
        raw == S4.frames[frame].buffer
        S5  == IF raw = UninitPtr
               THEN Undefined(S4, "read of uninitialised frame->buffer", FALSE)
               ELSE S4
        buf == IF raw = UninitPtr
               THEN (IF junk THEN GarbagePtr ELSE NullPtr)
               ELSE raw
        S6 == attach_commit(mp_image_new_ref(S5, frame, S.cur.img), buf, fault)
        S7 == next_layer(S6, desc.nb_layers)
        \* fail: free(frame)
        Fail == overlay_return([frame_access(S5, frame) EXCEPT
                                    !.frames[frame].freed = @ + 1], 0 - 1)
    IN  IF S.p.dmabuf = NullPtr
        THEN Undefined(S, "zwp_linux_dmabuf_v1_create_params on NULL dmabuf", TRUE)
        ELSE IF ~mallocOK THEN Oom
        ELSE IF buf # NullPtr
        THEN (IF Alive(S6) THEN S7 ELSE S6)
        ELSE Fail

\* ----------------------------------------------------------------- actions
Replies == {"created", "failed"}

Do_init ==
    /\ pc = "idle"
    /\ hist.inits < MaxInits
    /\ \E avail \in BOOLEAN, fault \in BOOLEAN :
       \* without the interop parameters init reads no other input
       \E adv \in IF avail THEN Advertisements ELSE {<<>>} :
       \E surfOK \in IF avail THEN BOOLEAN ELSE {FALSE} :
       \E subOK \in IF surfOK THEN BOOLEAN ELSE {FALSE} :
          Becomes(init(St, avail, adv, surfOK, subOK, fault))

\* The host calls uninit once init has been called.
Do_uninit ==
    /\ pc = "idle"
    /\ hist.inits > 0
    /\ hist.uninits < MaxUninits
    /\ \E fault \in BOOLEAN :
          Becomes(uninit([Called(St, "uninit") EXCEPT !.hist.uninits = @ + 1,
                                                      !.hist.ready = FALSE],
                         fault))

\* The host hands frames over only between a successful init and uninit.
Do_overlay_frame ==
    /\ pc = "idle"
    /\ hist.ready
    /\ \E hw_image \in {NullPtr} \cup Images, src \in SrcRects, dst \in DstRects :
          /\ Len(params) + Desc(hw_image).nb_layers <= MaxParams
          /\ Becomes(overlay_frame(St, hw_image, src, dst))

Do_overlay_layer ==
    /\ pc = "overlay"
    /\ \E mallocOK \in BOOLEAN :
       \* after a failed malloc overlay_frame reads no other input
       \E reply \in IF mallocOK THEN Replies ELSE {"failed"} :
       \E junk \in IF mallocOK THEN BOOLEAN ELSE {FALSE} :
       \E fault \in IF junk THEN BOOLEAN ELSE {FALSE} :
          Becomes(overlay_layer(St, mallocOK, reply, junk, fault))

\* The compositor sends the release event of a committed buffer.
compositor_release ==
    /\ pc # "crashed"
    /\ connected
    /\ \E b \in DOMAIN buffers :
          /\ buffers[b].committed
          /\ ~buffers[b].releaseSent
          /\ buffers' = [buffers EXCEPT ![b].releaseSent = TRUE]
          /\ events' = Append(events, b)
    /\ UNCHANGED <<p, pc, cur, connected, surfaces, subsurfaces, params,
                   frames, ub, hist>>

\* The display connection breaks (server gone, protocol error).
connection_lost ==
    /\ pc # "crashed"
    /\ connected
    /\ connected' = FALSE
    /\ UNCHANGED <<p, pc, cur, events, surfaces, subsurfaces, params,
                   frames, buffers, ub, hist>>

Next ==
    \/ Do_init
    \/ Do_uninit
    \/ Do_overlay_frame
    \/ Do_overlay_layer
    \/ compositor_release
    \/ connection_lost

Spec == Init /\ [][Next]_vars

\* ===================================================================== claims
\* The buffer attached and committed on the video surface.
Attached ==
    IF p.video_surface = NullPtr THEN NullPtr
    ELSE surfaces[p.video_surface].attached

\* overlay_frame has returned and nothing was called since.
Returned == pc = "idle" /\ hist.op = "overlay_frame"

\* The buffer-params objects created by the last overlay_frame call.
CallParams == {i \in DOMAIN params : i >= hist.firstParams}

\* b is a buffer created by the last overlay_frame call.
CreatedByCall(b) == b \in DOMAIN buffers /\ buffers[b].params \in CallParams

\* The server answered every request of the last overlay_frame call.
ServerReplied == \A i \in DOMAIN hist.replies : hist.replies[i] \in Replies

\* C1: a hand-off of a frame with a valid plane, whatever the server replies
\* to each layer, either returns 0 with a buffer of that frame attached, or
\* returns -1 with no buffer of that call attached and none committed.
C1_AllOrNothing ==
    (Returned /\ HasDesc(hist.img) /\ ServerReplied) =>
        \/ /\ hist.ret = 0
           /\ CreatedByCall(Attached)
        \/ /\ hist.ret = 0 - 1
           /\ ~CreatedByCall(Attached)
           /\ hist.committed = <<>>

\* C2: whenever the server replies "failed" to a request of overlay_frame,
\* the call returns -1 and the attached buffer is the one attached before.
C2_FailedKeepsAttached ==
    (Returned /\ \E i \in DOMAIN hist.replies : hist.replies[i] = "failed") =>
        /\ hist.ret = 0 - 1
        /\ Attached = hist.before

\* C3: overlay_frame with no image attaches NULL and commits, leaves no buffer
\* attached to the video surface, and returns 0.
C3_NullDetaches ==
    (Returned /\ hist.img = NullPtr) =>
        /\ hist.ret = 0
        /\ hist.committed = <<NullPtr>>
        /\ Attached = NullPtr

\* C3 witness: a NULL hand-off has returned while a buffer created by an
\* earlier hand-off was attached.
C3_Witness ==
    /\ Returned /\ hist.img = NullPtr /\ hist.ret = 0
    /\ hist.before > 0

\* The undefined operations that are a second destroy of a surface object.
DoubleDestroys == {"wl_surface_destroy on a destroyed surface",
                   "wl_subsurface_destroy on a destroyed subsurface"}

\* C4: over any sequence of init and uninit calls every surface and every
\* subsurface is destroyed at most once (in runs where nothing else undefined
\* has happened before).
C4_DestroyedAtMostOnce ==
    (ub \subseteq DoubleDestroys) =>
    /\ \A s \in DOMAIN surfaces : surfaces[s].destroyed <= 1
    /\ \A s \in DOMAIN subsurfaces : subsurfaces[s].destroyed <= 1

\* C5: on every failure branch of init, init returns -1 and no surface or
\* subsurface it created is still live.
C5_InitFailureRollsBack ==
    (hist.op = "init" /\ hist.branch \in {"no_params", "no_surface", "no_subsurface"}) =>
        /\ pc = "idle"
        /\ hist.ret = 0 - 1
        /\ hist.newSurface # 0 => surfaces[hist.newSurface].destroyed >= 1
        /\ hist.newSubsurface # 0 => subsurfaces[hist.newSubsurface].destroyed >= 1

\* C6: when init fails for want of the interop parameters it returns -1 and
\* its teardown does nothing with a display, surface or subsurface that was
\* never obtained.
C6_TeardownWithoutObjects ==
    (hist.op = "init" /\ hist.branch = "no_params") =>
        /\ pc = "idle"
        /\ hist.ret = 0 - 1
        /\ ub = {}
        /\ surfaces = <<>> /\ subsurfaces = <<>>

\* C7: when overlay_frame is not running, every buffer-params object it ever
\* created has had its reply and has been destroyed exactly once.
C7_ParamsCompleted ==
    pc = "idle" =>
        \A i \in DOMAIN params :
            /\ params[i].reply \in Replies
            /\ params[i].destroyed = 1

\* C8: whenever init has returned 0, the subcompositor and the dmabuf
\* interface are both bound, whatever the server advertised.
C8_BothBound ==
    (hist.op = "init" /\ hist.ret = 0) =>
        /\ p.subcompositor # NullPtr
        /\ p.dmabuf # NullPtr

\* The planes of layer l of image img that have a non-zero fd and a non-zero
\* pitch, each as the add request that carries its own plane index.
ValidPlanes(img, l) ==
    LET desc == Desc(img)
        pls  == desc.layers[l + 1].planes
    IN  {[fd |-> desc.objects[pls[k + 1].object_index + 1].fd,
          plane_idx |-> k, offset |-> pls[k + 1].offset,
          pitch |-> pls[k + 1].pitch, modifier_hi |-> 0, modifier_lo |-> 0] :
           k \in {j \in 0..(AV_DRM_MAX_PLANES - 1) :
                    /\ desc.objects[pls[j + 1].object_index + 1].fd # 0
                    /\ pls[j + 1].pitch # 0}}

\* C9: the plane entries added to a layer's buffer-params object are exactly
\* the planes with non-zero fd and non-zero pitch, each once, each with its
\* own plane index.
C9_SkipRule ==
    \A i \in DOMAIN params :
        LET adds == params[i].adds
        IN  /\ {adds[k] : k \in DOMAIN adds} = ValidPlanes(params[i].img, params[i].layer)
            /\ \A j, k \in DOMAIN adds : j # k => adds[j] # adds[k]

\* C9 witness: a request was built for the layer of image 1, which has a plane
\* with fd 0 before a valid one and a plane with pitch 0.
C9_Witness ==
    \E i \in DOMAIN params :
        /\ params[i].img = 1
        /\ Len(params[i].adds) = 2
        /\ params[i].adds[2].plane_idx = 2

\* C10: after a single-layer hand-off whose request the server answered
\* "created", the attached buffer is the new buffer and the buffer attached
\* before is not destroyed by the call; a buffer is destroyed only by the
\* dispatch of its release event.
C10_NewAttachedOldKept ==
    /\ (Returned /\ HasDesc(hist.img) /\ Desc(hist.img).nb_layers = 1
           /\ hist.replies = <<"created">>) =>
          /\ hist.ret = 0
          /\ CreatedByCall(Attached)
          /\ hist.committed = <<Attached>>
          /\ (hist.before > 0 /\ ~buffers[hist.before].released) =>
                 buffers[hist.before].destroyed = 0
    /\ \A b \in DOMAIN buffers :
          buffers[b].destroyed > 0 => buffers[b].released

\* C10 witness: a single-layer hand-off was answered "created" while a buffer
\* of an earlier hand-off was attached, and that buffer is still live.
C10_Witness ==
    /\ Returned /\ HasDesc(hist.img) /\ Desc(hist.img).nb_layers = 1
    /\ hist.replies = <<"created">>
    /\ hist.before > 0
    /\ buffers[hist.before].destroyed = 0
    /\ Attached # hist.before

\* The frame record registered as listener data of buffer b.
FrameOf(b) == frames[buffers[b].data]

\* The bridge holds the reference it took on the image buffer b was made from.
HoldsImage(b) ==
    /\ FrameOf(b).image = params[buffers[b].params].img
    /\ FrameOf(b).imageFreed = 0

\* C11 as stated: no buffer that is attached to the (live) video surface, or
\* whose release has not been dispatched, has had its image reference dropped.
C11_RefHeldWhileAttached ==
    \A b \in DOMAIN buffers :
        (/\ buffers[b].committed
         /\ \/ ~buffers[b].released
            \/ /\ Attached = b
               /\ surfaces[p.video_surface].destroyed = 0) => HoldsImage(b)

\* C11 amended: from its attach until its release event is dispatched, every
\* created buffer has the bridge's reference to its image (a buffer whose
\* release the compositor signals while it is still attached loses it then).
C11_RefHeldUntilRelease ==
    \A b \in DOMAIN buffers :
        (buffers[b].committed /\ ~buffers[b].released) =>
            /\ HoldsImage(b)
            /\ FrameOf(b).freed = 0

\* C11 witness: a superseded buffer whose release event is queued but not yet
\* dispatched, its image reference still held.
C11_Witness ==
    \E b \in DOMAIN buffers :
        /\ buffers[b].committed /\ buffers[b].releaseSent /\ ~buffers[b].released
        /\ Attached # b
        /\ HoldsImage(b)

\* C12: the dispatch of a buffer's release event releases the image reference
\* retained for it and destroys the buffer; no buffer is destroyed twice and
\* no retained image reference is released twice.
C12_ReleaseOnce ==
    /\ \A b \in DOMAIN buffers :
          /\ buffers[b].destroyed <= 1
          /\ buffers[b].released =>
                /\ buffers[b].destroyed = 1
                /\ FrameOf(b).imageFreed = 1
    /\ \A f \in DOMAIN frames : frames[f].imageFreed <= 1

\* C12 witness: after hand-offs and a teardown, a buffer's release event has
\* been dispatched.
C12_Witness ==
    /\ hist.uninits > 0
    /\ \E b \in DOMAIN buffers :
          /\ buffers[b].released /\ buffers[b].destroyed = 1
          /\ FrameOf(b).imageFreed = 1

\* The last overlay_frame call was given a frame and the server accepted
\* every request the call made.
AllCreated ==
    /\ Returned /\ HasDesc(hist.img)
    /\ \A i \in DOMAIN hist.replies : hist.replies[i] = "created"

\* A request made before the last overlay_frame call ended in a per-frame
\* failure: malloc failed (never submitted) or the server replied "failed".
EarlierFailure ==
    \E i \in DOMAIN params :
        /\ i < hist.firstParams
        /\ ~params[i].submitted \/ params[i].reply = "failed"

\* The buffer created for buffer-params object i.
BufferOf(i) == CHOOSE b \in DOMAIN buffers : buffers[b].params = i

\* C13: after a hand-off that failed (allocation failure or server
\* rejection), a later hand-off of a valid frame whose buffer creations the
\* server accepts returns 0 and attaches that frame's buffer.
C13_UsableAfterFailure ==
    (AllCreated /\ EarlierFailure) =>
        /\ hist.ret = 0
        /\ CreatedByCall(Attached)
        /\ params[buffers[Attached].params].img = hist.img
        /\ HoldsImage(Attached)

\* C13 witness: a hand-off succeeded after an earlier one had failed.
C13_Witness ==
    AllCreated /\ EarlierFailure /\ hist.ret = 0

\* C14: a hand-off of a frame with L layers whose creations all succeed makes
\* exactly L requests, one per layer in layer order, attaches and commits
\* the buffer of each in turn, and leaves the last layer's buffer attached.
C14_OneRoundTripPerLayer ==
    AllCreated =>
        LET L == Desc(hist.img).nb_layers
        IN  /\ hist.ret = 0
            /\ Len(hist.replies) = L
            /\ Len(params) = hist.firstParams + L - 1
            /\ \A k \in 0..(L - 1) :
                  LET i == hist.firstParams + k
                  IN  /\ params[i].layer = k
                      /\ params[i].img = hist.img
                      /\ params[i].submitted
                      /\ params[i].format = Desc(hist.img).layers[k + 1].format
                      /\ \E b \in DOMAIN buffers : buffers[b].params = i
                      /\ hist.committed[k + 1] = BufferOf(i)
            /\ Len(hist.committed) = L
            /\ Attached = BufferOf(hist.firstParams + L - 1)

\* C14 witness: a two-layer hand-off whose two creations succeeded.
C14_Witness ==
    AllCreated /\ Desc(hist.img).nb_layers = 2 /\ hist.ret = 0

\* -------------------------------------------------------------------- C15
\* The registry listener on its own: the server advertises any sequence of
\* globals, recognised or not, repeated or not, and registry_handle_add runs
\* once per event.
RegistryInterfaces == Interfaces \cup {"wl_seat"}

AdvertisementSequences ==
    UNION {[1..n -> RegistryInterfaces] : n \in 0..MaxAdvertised}

\* events holds the advertisements not yet dispatched; hist what has been
\* advertised so far, the last interface and struct priv before its event.
InitRegistry ==
    /\ p = [wayland_params |-> 1, registry |-> 1, dmabuf |-> NullPtr,
            subcompositor |-> NullPtr, video_surface |-> NullPtr,
            video_subsurface |-> NullPtr]
    /\ pc = "idle"
    /\ cur = NoCall
    /\ connected = TRUE
    /\ events \in AdvertisementSequences
    /\ surfaces = <<>>
    /\ subsurfaces = <<>>
    /\ params = <<>>
    /\ frames = <<>>
    /\ buffers = <<>>
    /\ ub = {}
    /\ hist = [op |-> "none", advertised |-> {}, interface |-> "", before |-> p]

Do_registry_handle_add ==
    /\ events # <<>>
    /\ LET interface == Head(events)
       IN  /\ p' = registry_handle_add(p, GlobalName(interface), interface)
           /\ hist' = [op |-> "registry_handle_add",
                       advertised |-> hist.advertised \cup {interface},
                       interface |-> interface, before |-> p]
    /\ events' = Tail(events)
    /\ UNCHANGED <<pc, cur, connected, surfaces, subsurfaces, params, frames,
                   buffers, ub>>

NextRegistry == Do_registry_handle_add

SpecRegistry == InitRegistry /\ [][NextRegistry]_vars

\* C15: after any prefix of any advertisement sequence the subcompositor is
\* bound if and only if wl_subcompositor was advertised, the dmabuf object is
\* bound if and only if zwp_linux_dmabuf_v1 was advertised, and the event of
\* any other interface left struct priv as it was.
C15_BoundIffAdvertised ==
    /\ p.subcompositor # NullPtr <=> "wl_subcompositor" \in hist.advertised
    /\ p.dmabuf # NullPtr <=> "zwp_linux_dmabuf_v1" \in hist.advertised
    /\ (/\ hist.op = "registry_handle_add"
        /\ hist.interface \notin {"wl_subcompositor", "zwp_linux_dmabuf_v1"})
       => p = hist.before

\* Both globals were advertised, the dmabuf one first, with an unrecognised
\* interface last.
C15_Witness ==
    /\ events = <<>>
    /\ hist.advertised = {"wl_subcompositor", "zwp_linux_dmabuf_v1", "wl_seat"}
    /\ hist.interface = "wl_seat"
    /\ p.subcompositor # NullPtr /\ p.dmabuf # NullPtr

\* -------------------------------------------------------------------- C16
\* The hand-off path on its own, with several source rectangles: the state
\* after a successful init, then overlay_frame calls and the compositor's
\* release events.
SrcRectsWide == SrcRects \cup {[x0 |-> 320, y0 |-> 0, x1 |-> 960, y1 |-> 480]}

Loaded == [p |-> [wayland_params |-> NullPtr, registry |-> NullPtr,
                  dmabuf |-> NullPtr, subcompositor |-> NullPtr,
                  video_surface |-> NullPtr, video_subsurface |-> NullPtr],
           pc |-> "idle", cur |-> NoCall, connected |-> TRUE, events |-> <<>>,
           surfaces |-> <<>>, subsurfaces |-> <<>>, params |-> <<>>,
           frames |-> <<>>, buffers |-> <<>>, ub |-> {},
           hist |-> [inits |-> 0, uninits |-> 0, ready |-> FALSE] @@ NoHistory]

InitRequests ==
    \E adv \in Advertisements :
        /\ {"wl_subcompositor", "zwp_linux_dmabuf_v1"}
              \subseteq {adv[i] : i \in DOMAIN adv}
        /\ LET S == init(Loaded, TRUE, adv, TRUE, TRUE, FALSE)
           IN  /\ p = S.p /\ pc = S.pc /\ cur = S.cur
               /\ connected = S.connected /\ events = S.events
               /\ surfaces = S.surfaces /\ subsurfaces = S.subsurfaces
               /\ params = S.params /\ frames = S.frames
               /\ buffers = S.buffers /\ ub = S.ub /\ hist = S.hist

Do_overlay_frame_rects ==
    /\ pc = "idle"
    /\ hist.ready
    /\ \E hw_image \in {NullPtr} \cup Images, src \in SrcRectsWide,
          dst \in DstRects :
          /\ Len(params) + Desc(hw_image).nb_layers <= MaxParams
          /\ Becomes(overlay_frame(St, hw_image, src, dst))

NextRequests ==
    \/ Do_overlay_frame_rects
    \/ Do_overlay_layer
    \/ compositor_release

SpecRequests == InitRequests /\ [][NextRequests]_vars

\* A whole overlay_frame call from state S in which malloc succeeds and the
\* server gives the same reply to every request.
RECURSIVE run_layers(_, _)
run_layers(S, reply) ==
    IF S.pc = "overlay"
    THEN run_layers(overlay_layer(S, TRUE, reply, FALSE, FALSE), reply)
    ELSE S

\* The zwp_linux_buffer_params_v1_create request of params object i is the
\* one overlay_frame's arguments call for.
RequestFromSrc(i) ==
    LET r == params[i]
        layer == Desc(r.img).layers[r.layer + 1]
    IN  /\ r.width = r.src.x1 - r.src.x0
        /\ r.height = r.src.y1 - r.src.y0
        /\ r.format = layer.format
        /\ r.flags = 0

\* C16: every submitted buffer request has width src.x1 - src.x0, height
\* src.y1 - src.y0, the layer's format and flags 0, every plane was added
\* with modifier halves (0, 0), and two overlay_frame calls that differ only
\* in dst end in the same state (requests included).
C16_SizedFromSrc ==
    /\ \A i \in DOMAIN params :
          /\ params[i].submitted => RequestFromSrc(i)
          /\ \A a \in DOMAIN params[i].adds :
                /\ params[i].adds[a].modifier_hi = 0
                /\ params[i].adds[a].modifier_lo = 0
    /\ (pc = "idle" /\ hist.ready) =>
          \A hw_image \in {NullPtr} \cup Images, src \in SrcRectsWide,
             reply \in Replies :
          \A d1 \in DstRects : \A d2 \in DstRects \ {d1} :
             run_layers(overlay_frame(St, hw_image, src, d1), reply)
               = run_layers(overlay_frame(St, hw_image, src, d2), reply)

\* Two requests of different source rectangles have been submitted, the
\* second for a layer with planes.
C16_Witness ==
    /\ Len(params) = 2
    /\ params[1].submitted /\ params[2].submitted
    /\ params[1].src # params[2].src
    /\ params[2].width = 640 /\ params[2].height = 480
    /\ params[2].adds # <<>>
    /\ pc = "idle" /\ hist.ready

\* -------------------------------------------------------------------- C17
\* C17: whatever release events are dispatched during overlay_frame's and
\* uninit's round-trips, every frame record is freed at most once and no
\* frame record is read, written or freed after it has been freed.
C17_FrameFreedOnce ==
    /\ \A f \in DOMAIN frames : frames[f].freed <= 1
    /\ "access to a freed frame record" \notin ub

\* An overlay_frame call whose round-trip dispatched the release of a buffer
\* of an earlier call (freeing that frame record) and whose own frame record
\* was freed on the failure path.
C17_Witness ==
    /\ Returned /\ hist.ret = 0 - 1
    /\ \E b \in DOMAIN buffers :
          /\ buffers[b].params < hist.firstParams
          /\ buffers[b].released
          /\ FrameOf(b).freed = 1
    /\ \E f \in DOMAIN frames :
          /\ frames[f].params >= hist.firstParams
          /\ frames[f].buffer = NullPtr
          /\ frames[f].freed = 1

\* -------------------------------------------------------------------- C18
\* C18: overlay_frame never tests frame->buffer of a frame record before
\* param_create_succeeded or param_create_failed has written it.
C18_BufferSetBeforeTest ==
    "read of uninitialised frame->buffer" \notin ub

\* -------------------------------------------------------------------- C19
\* Every release event the compositor owes has been sent.
AllReleasesSent ==
    \A b \in DOMAIN buffers : buffers[b].committed => buffers[b].releaseSent

\* C19: after overlay_frame(NULL) followed by uninit, on a live connection
\* and with every release sent by the compositor, every frame record has been
\* freed, every wl_buffer destroyed and every image reference dropped.
C19_NothingLiveAfterTeardown ==
    (/\ hist.op = "uninit" /\ hist.afterNull
     /\ pc = "idle" /\ connected /\ ub = {}
     /\ AllReleasesSent)
    => /\ \A f \in DOMAIN frames :
             /\ frames[f].freed = 1
             /\ frames[f].image # UninitPtr => frames[f].imageFreed = 1
       /\ \A b \in DOMAIN buffers : buffers[b].destroyed = 1
====
